---- MODULE Spec2Model ----
(***************************************************************************)
(* Signal generation and consensus aggregation of                          *)
(* python_examples/strategy_example.py: RSIAlphaModel,                     *)
(* MovingAverageCrossAlphaModel and CompositeAlphaModel.                   *)
(*                                                                         *)
(* Numbers.  Indicator values and thresholds are integers (exactly         *)
(* representable floats).  Confidences are Python floats: <<m, e>> stands  *)
(* for m * 2^e with a 53-bit mantissa m held in limbs, rounded to nearest  *)
(* even after every addition and division.  The exponent range is          *)
(* unbounded (no underflow).  A missing confidence (Python None) is <<>>.  *)
(***************************************************************************)
EXTENDS Integers, Sequences, FiniteSets, TLC

VARIABLES
    world,               \* fixed responses of the data provider and the calculation engine
    model,               \* the model instance generate_insights is called on
    symbols,             \* the symbols argument of the call
    pc,                  \* position of the call
    idx,                 \* position of the running per-symbol (or per-group) loop
    collected,           \* number of sub-models whose generate_insights has returned
    insights,            \* local `insights` of RSI / MA generate_insights
    all_insights,        \* local `all_insights` of CompositeAlphaModel.generate_insights
    insights_by_symbol,  \* local dict, as a sequence of [symbol, insights] in insertion order
    composite_insights,  \* local `composite_insights`
    result,              \* the value returned by the call
    prev,                \* the previous finished call [models, symbols, result], or NoCall
    calls                \* number of generate_insights calls started

vars == <<world, model, symbols, pc, idx, collected, insights, all_insights,
          insights_by_symbol, composite_insights, result, prev, calls>>

(***************************************************************************)
(* Bounds of the model.                                                    *)
(***************************************************************************)
MaxSymbols == 2
MaxSubModels == 3
MaxCalls == 2

Symbols == {"A", "B"}

(***************************************************************************)
(* Natural numbers of any size, as sequences of limbs in base 2^LimbBits,  *)
(* least significant limb first, no leading zero limb; zero is <<>>.       *)
(* They carry the 53-bit mantissas of Python floats.                       *)
(***************************************************************************)
LimbBits == 15
Base == 2 ^ LimbBits

RECURSIVE BitLength(_)
BitLength(M) == IF M = 0 THEN 0 ELSE 1 + BitLength(M \div 2)

RECURSIVE NTrim(_)
NTrim(a) ==
    IF a = <<>> \/ a[Len(a)] # 0 THEN a ELSE NTrim(SubSeq(a, 1, Len(a) - 1))

RECURSIVE NFromInt(_)
NFromInt(n) == IF n = 0 THEN <<>> ELSE <<n % Base>> \o NFromInt(n \div Base)

RECURSIVE NAddFrom(_, _, _, _)
NAddFrom(a, b, i, carry) ==
    IF i > Len(a) /\ i > Len(b)
    THEN IF carry = 0 THEN <<>> ELSE <<carry>>
    ELSE LET x == (IF i <= Len(a) THEN a[i] ELSE 0)
                  + (IF i <= Len(b) THEN b[i] ELSE 0) + carry
         IN  <<x % Base>> \o NAddFrom(a, b, i + 1, x \div Base)

NAdd(a, b) == NAddFrom(a, b, 1, 0)

RECURSIVE NMulFrom(_, _, _, _)
NMulFrom(a, k, i, carry) ==
    IF i > Len(a)
    THEN IF carry = 0 THEN <<>> ELSE <<carry>>
    ELSE LET x == a[i] * k + carry
         IN  <<x % Base>> \o NMulFrom(a, k, i + 1, x \div Base)

\* a * k for 0 < k <= Base
NMulSmall(a, k) == NMulFrom(a, k, 1, 0)

\* <<quotient limbs 1..i, remainder>> of the limbs 1..i of a, r carried in from above
RECURSIVE NDivFrom(_, _, _, _)
NDivFrom(a, n, i, r) ==
    IF i = 0 THEN <<<<>>, r>>
    ELSE LET x    == r * Base + a[i]
             rest == NDivFrom(a, n, i - 1, x % n)
         IN  <<Append(rest[1], x \div n), rest[2]>>

\* <<a div n, a mod n>> for 0 < n <= Base
NDivSmall(a, n) ==
    LET d == NDivFrom(a, n, Len(a), 0) IN <<NTrim(d[1]), d[2]>>

\* a * 2^k
NShl(a, k) ==
    IF a = <<>> \/ k = 0 THEN a
    ELSE [j \in 1..(k \div LimbBits) |-> 0]
         \o (IF k % LimbBits = 0 THEN a ELSE NMulSmall(a, 2 ^ (k % LimbBits)))

\* a div 2^k
NShr(a, k) ==
    IF k = 0 THEN a
    ELSE IF k \div LimbBits >= Len(a) THEN <<>>
    ELSE IF k % LimbBits = 0 THEN SubSeq(a, (k \div LimbBits) + 1, Len(a))
    ELSE NDivSmall(SubSeq(a, (k \div LimbBits) + 1, Len(a)), 2 ^ (k % LimbBits))[1]

\* bit k of a (bit 0 is the lowest)
NBit(a, k) ==
    IF (k \div LimbBits) + 1 > Len(a) THEN 0
    ELSE (a[(k \div LimbBits) + 1] \div (2 ^ (k % LimbBits))) % 2

\* a mod 2^k # 0
NLowNonZero(a, k) ==
    \/ \E j \in 1..(k \div LimbBits) : j <= Len(a) /\ a[j] # 0
    \/ /\ (k \div LimbBits) + 1 <= Len(a)
       /\ a[(k \div LimbBits) + 1] % (2 ^ (k % LimbBits)) # 0

NBitLength(a) ==
    IF a = <<>> THEN 0 ELSE (Len(a) - 1) * LimbBits + BitLength(a[Len(a)])

RECURSIVE NLessFrom(_, _, _)
NLessFrom(a, b, i) ==
    IF i = 0 THEN FALSE
    ELSE IF a[i] # b[i] THEN a[i] < b[i] ELSE NLessFrom(a, b, i - 1)

NLess(a, b) ==
    IF Len(a) # Len(b) THEN Len(a) < Len(b) ELSE NLessFrom(a, b, Len(a))

\* the number of zero bits below the lowest set bit of a # 0, counted from bit k
RECURSIVE NTrailingZeros(_, _)
NTrailingZeros(a, k) ==
    IF k % LimbBits = 0 /\ a[(k \div LimbBits) + 1] = 0
    THEN NTrailingZeros(a, k + LimbBits)
    ELSE IF NBit(a, k) = 1 THEN k ELSE NTrailingZeros(a, k + 1)

(***************************************************************************)
(* Python floats (IEEE binary64): <<m, e>> stands for m * 2^e, m an odd    *)
(* natural number of at most MantissaBits bits; zero is <<<<>>, 0>>.       *)
(* Every addition and division rounds to nearest, ties to even.            *)
(***************************************************************************)
MantissaBits == 53

FZero == <<<<>>, 0>>
None  == <<>>

Canon(m, e) ==
    IF m = <<>> THEN FZero
    ELSE LET z == NTrailingZeros(m, 0) IN <<NShr(m, z), e + z>>

\* M * 2^e (plus a non-zero remainder below the last bit of M when sticky)
\* rounded to MantissaBits bits, ties to even.
RoundNearestEven(M, e, sticky) ==
    IF NBitLength(M) <= MantissaBits
    THEN Canon(M, e)
    ELSE LET k    == NBitLength(M) - MantissaBits
             q    == NShr(M, k)
             low  == sticky \/ NLowNonZero(M, k - 1)
             up   == NBit(M, k - 1) = 1 /\ (low \/ NBit(q, 0) = 1)
         IN  Canon(IF up THEN NAdd(q, <<1>>) ELSE q, e + k)

FromInt(n) == Canon(NFromInt(n), 0)

FAdd(a, b) ==
    LET e == IF a[2] < b[2] THEN a[2] ELSE b[2]
        M == NAdd(NShl(a[1], a[2] - e), NShl(b[1], b[2] - e))
    IN  RoundNearestEven(M, e, FALSE)

\* a shift s with m * 2^s >= n * 2^(MantissaBits + 1): the quotient then has
\* the mantissa, a rounding bit and at least one bit more
GuardShift(m, n) ==
    IF BitLength(n) + MantissaBits + 2 > NBitLength(m)
    THEN BitLength(n) + MantissaBits + 2 - NBitLength(m)
    ELSE 0

\* a / n for a positive integer n
FDivInt(a, n) ==
    IF a[1] = <<>> THEN FZero
    ELSE LET s == GuardShift(a[1], n)
             d == NDivSmall(NShl(a[1], s), n)
         IN  RoundNearestEven(d[1], a[2] - s, d[2] # 0)

FLess(a, b) ==
    LET e == IF a[2] < b[2] THEN a[2] ELSE b[2]
    IN  NLess(NShl(a[1], a[2] - e), NShl(b[1], b[2] - e))

FLeq(a, b) == ~FLess(b, a)

\* Python min(a, b): b when b < a, else a
FMin(a, b) == IF FLess(b, a) THEN b ELSE a

\* the float literals of the source
Lit09 == FDivInt(FromInt(9), 10)
Lit07 == FDivInt(FromInt(7), 10)
Lit05 == FDivInt(FromInt(5), 10)
Lit10 == FromInt(1)

(***************************************************************************)
(* Insight: mq.PyInsight(symbol, direction) with the attributes the        *)
(* models assign.                                                          *)
(***************************************************************************)
PyInsight(symbol, direction, confidence, source) ==
    [symbol |-> symbol, direction |-> direction, confidence |-> confidence,
     magnitude |-> Lit10, source_model |-> source]

(***************************************************************************)
(* Constructors.  __init__ stores its arguments and checks nothing.        *)
(***************************************************************************)
RSIAlphaModel(rsi_period, overbought, oversold) ==
    [kind |-> "RSI", name |-> "RSI_Alpha_Model", rsi_period |-> rsi_period,
     overbought |-> overbought, oversold |-> oversold]

MovingAverageCrossAlphaModel(fast_period, slow_period) ==
    [kind |-> "MA", name |-> "MA_Cross_Alpha_Model",
     fast_period |-> fast_period, slow_period |-> slow_period]

CompositeAlphaModel(models) ==
    [kind |-> "Composite", name |-> "Composite_Alpha_Model", models |-> models]

\* A user-written subclass of BasePythonAlphaModel: its generate_insights
\* returns one preset insight per symbol of the call.
CustomAlphaModel(direction, confidence) ==
    [kind |-> "Custom", name |-> "Custom_Alpha_Model",
     direction |-> direction, confidence |-> confidence]

NoModel == [kind |-> "none"]
NoCall  == [kind |-> "none"]

(***************************************************************************)
(* External collaborators (the moses_quant binding): what they answer is   *)
(* read from `w`, fixed for the whole behaviour.                           *)
(*   w[symbol].hist = [raises, len]     available price history            *)
(*   w[symbol].rsi  = [raises, values]  answer of calculate_rsi            *)
(*   w[symbol].sma[period] = [raises, values]  answer of calculate_sma     *)
(***************************************************************************)
Resp(raises, values) == [raises |-> raises, values |-> values]
Hist(raises, len) == [raises |-> raises, len |-> len]

\* get_price_history(symbol, n): at most n points; only the length is used here
GetPriceHistory(w, symbol, n) ==
    Hist(w[symbol].hist.raises,
         IF w[symbol].hist.len < n THEN w[symbol].hist.len ELSE n)

CalculateRsi(w, symbol, period) == w[symbol].rsi

CalculateSma(w, symbol, period) == w[symbol].sma[period]

(***************************************************************************)
(* The body of the try block for one symbol.  Its outcome is               *)
(* [raised, emit]: whether an exception left the body, and the insights    *)
(* appended to `insights`.                                                 *)
(***************************************************************************)
Raised == [raised |-> TRUE, emit |-> <<>>]
Skip   == [raised |-> FALSE, emit |-> <<>>]
Emit(insight) == [raised |-> FALSE, emit |-> <<insight>>]

HistoryDays == 50
MaPadding == 10

Last(s) == s[Len(s)]
Prev(s) == s[Len(s) - 1]

IsOverbought(latest_rsi, overbought) == latest_rsi > overbought

IsOversold(latest_rsi, oversold) == latest_rsi < oversold

\* min(0.9, distance / 10.0)
RSIConfidence(distance) == FMin(Lit09, FDivInt(FromInt(distance), 10))

RSISymbol(w, self, symbol) ==
    LET prices == GetPriceHistory(w, symbol, HistoryDays)
        rsi_values == CalculateRsi(w, symbol, self.rsi_period)
        latest_rsi == Last(rsi_values.values)
    IN  IF prices.raises THEN Raised
        ELSE IF prices.len < self.rsi_period + 1 THEN Skip
        ELSE IF rsi_values.raises THEN Raised
        ELSE IF rsi_values.values = <<>> THEN Skip
        ELSE IF IsOverbought(latest_rsi, self.overbought)
             THEN Emit(PyInsight(symbol, "Down",
                                 RSIConfidence(latest_rsi - self.overbought), self.name))
        ELSE IF IsOversold(latest_rsi, self.oversold)
             THEN Emit(PyInsight(symbol, "Up",
                                 RSIConfidence(self.oversold - latest_rsi), self.name))
        ELSE Skip

\* a cross that requires the fast line strictly below on the previous point
GoldenCrossStrict(fast_previous, fast_current, slow_previous, slow_current) ==
    fast_previous < slow_previous /\ fast_current > slow_current

GoldenCross(fast_previous, fast_current, slow_previous, slow_current) ==
    fast_previous <= slow_previous /\ fast_current > slow_current

DeathCross(fast_previous, fast_current, slow_previous, slow_current) ==
    fast_previous >= slow_previous /\ fast_current < slow_current

MASymbol(w, self, symbol) ==
    LET longest == IF self.fast_period > self.slow_period
                   THEN self.fast_period ELSE self.slow_period
        prices  == GetPriceHistory(w, symbol, longest + MaPadding)
        fast_ma == CalculateSma(w, symbol, self.fast_period)
        slow_ma == CalculateSma(w, symbol, self.slow_period)
    IN  IF prices.raises THEN Raised
        ELSE IF prices.len < self.slow_period + 2 THEN Skip
        ELSE IF fast_ma.raises \/ slow_ma.raises THEN Raised
        ELSE IF Len(fast_ma.values) < 2 \/ Len(slow_ma.values) < 2 THEN Skip
        ELSE IF GoldenCross(Prev(fast_ma.values), Last(fast_ma.values),
                            Prev(slow_ma.values), Last(slow_ma.values))
             THEN Emit(PyInsight(symbol, "Up", Lit07, self.name))
        ELSE IF DeathCross(Prev(fast_ma.values), Last(fast_ma.values),
                           Prev(slow_ma.values), Last(slow_ma.values))
             THEN Emit(PyInsight(symbol, "Down", Lit07, self.name))
        ELSE Skip

TryBody(w, self, symbol) ==
    IF self.kind = "RSI" THEN RSISymbol(w, self, symbol) ELSE MASymbol(w, self, symbol)

\* no handler: the exception leaves generate_insights
OnErrorPropagate(acc) == [raised |-> TRUE, insights |-> acc]

\* `except Exception as e: print(...); continue`: the loop goes on with the
\* insights collected so far.  The loop state is [raised, insights].
OnError(acc) == [raised |-> FALSE, insights |-> acc]

\* one iteration of `for symbol in symbols:` of RSI / MA generate_insights
SymbolStep(w, self, symbol, acc) ==
    LET o == TryBody(w, self, symbol)
    IN  IF o.raised THEN OnError(acc)
        ELSE [raised |-> FALSE, insights |-> acc \o o.emit]

RECURSIVE SymbolLoop(_, _, _, _, _)
SymbolLoop(w, self, syms, j, acc) ==
    IF j > Len(syms) THEN [raised |-> FALSE, insights |-> acc]
    ELSE LET st == SymbolStep(w, self, syms[j], acc)
         IN  IF st.raised THEN st ELSE SymbolLoop(w, self, syms, j + 1, st.insights)

CustomGenerate(self, syms) ==
    [j \in 1..Len(syms) |-> PyInsight(syms[j], self.direction, self.confidence, self.name)]

(***************************************************************************)
(* CompositeAlphaModel.generate_insights                                   *)
(***************************************************************************)
\* aggregation as soon as one sub-model has answered
FirstResponder(done, n) == done >= 1 \/ n = 0

\* `for model in self.models` has run to its end
CollectDone(done, n) == done >= n

\* insights_by_symbol[symbol].append(insight), creating the entry when missing
AddToGroup(dict, insight) ==
    IF \E p \in 1..Len(dict) : dict[p].symbol = insight.symbol
    THEN [p \in 1..Len(dict) |->
            IF dict[p].symbol = insight.symbol
            THEN [symbol |-> dict[p].symbol, insights |-> Append(dict[p].insights, insight)]
            ELSE dict[p]]
    ELSE Append(dict, [symbol |-> insight.symbol, insights |-> <<insight>>])

RECURSIVE GroupLoop(_, _, _)
GroupLoop(all, j, dict) ==
    IF j > Len(all) THEN dict ELSE GroupLoop(all, j + 1, AddToGroup(dict, all[j]))

GroupBySymbol(all) == GroupLoop(all, 1, <<>>)

IsUp(x) == x.direction = "Up"
IsDown(x) == x.direction = "Down"

\* a single insight is enough
QuorumOfOne(n) == n >= 1

\* `if len(symbol_insights) >= 2`
Quorum(n) == n >= 2

\* a tie resolved as Up
UpWinsOrTies(ups, downs) == ups >= downs

UpWins(ups, downs) == ups > downs

DownWins(ups, downs) == downs > ups

\* `i.confidence or 0.5`: None and 0.0 are both falsy
ConfidenceOr(c) == IF c = None \/ c = FZero THEN Lit05 ELSE c

RECURSIVE SumConfidence(_, _, _)
SumConfidence(subset, j, acc) ==
    IF j > Len(subset) THEN acc
    ELSE SumConfidence(subset, j + 1, FAdd(acc, ConfidenceOr(subset[j].confidence)))

AvgConfidence(subset) == FDivInt(SumConfidence(subset, 1, FZero), Len(subset))

\* the body of `for symbol, symbol_insights in insights_by_symbol.items()`
Consensus(self, entry) ==
    LET up_insights   == SelectSeq(entry.insights, IsUp)
        down_insights == SelectSeq(entry.insights, IsDown)
    IN  IF ~Quorum(Len(entry.insights)) THEN <<>>
        ELSE IF UpWins(Len(up_insights), Len(down_insights))
             THEN <<PyInsight(entry.symbol, "Up", AvgConfidence(up_insights), self.name)>>
        ELSE IF DownWins(Len(up_insights), Len(down_insights))
             THEN <<PyInsight(entry.symbol, "Down", AvgConfidence(down_insights), self.name)>>
        ELSE <<>>

RECURSIVE AggregateLoop(_, _, _, _)
AggregateLoop(self, dict, j, acc) ==
    IF j > Len(dict) THEN acc
    ELSE AggregateLoop(self, dict, j + 1, acc \o Consensus(self, dict[j]))

RECURSIVE GenerateInsights(_, _, _)
RECURSIVE CollectLoop(_, _, _, _, _)

\* `for model in self.models: all_insights.extend(model.generate_insights(symbols))`
CollectLoop(w, models, syms, k, acc) ==
    IF CollectDone(k - 1, Len(models)) THEN [raised |-> FALSE, insights |-> acc]
    ELSE LET r == GenerateInsights(w, models[k], syms)
         IN  IF r.raised THEN r
             ELSE CollectLoop(w, models, syms, k + 1, acc \o r.insights)

\* generate_insights of any model, run to its end: [raised, insights]
GenerateInsights(w, self, syms) ==
    IF self.kind = "Custom"
    THEN [raised |-> FALSE, insights |-> CustomGenerate(self, syms)]
    ELSE IF self.kind = "Composite"
    THEN LET c == CollectLoop(w, self.models, syms, 1, <<>>)
         IN  IF c.raised THEN c
             ELSE [raised |-> FALSE,
                   insights |-> AggregateLoop(self, GroupBySymbol(c.insights), 1, <<>>)]
    ELSE SymbolLoop(w, self, syms, 1, <<>>)

(***************************************************************************)
(* Inputs: configurations, symbol lists and collaborator responses.        *)
(***************************************************************************)
DefaultRsiPeriod == 14
DefaultOverbought == 70
DefaultOversold == 30
DefaultFastPeriod == 10
DefaultSlowPeriod == 20

SeqsUpTo(S, n) == UNION {[1..m -> S] : m \in 0..n}

SymbolLists == SeqsUpTo(Symbols, MaxSymbols)

RsiPeriods == {0, DefaultRsiPeriod}
\* <<overbought, oversold>>
Thresholds == {<<DefaultOverbought, DefaultOversold>>,
               <<DefaultOversold, DefaultOverbought>>, <<50, 50>>}
\* <<fast_period, slow_period>>
MaPeriods == {<<DefaultFastPeriod, DefaultSlowPeriod>>, <<0, DefaultSlowPeriod>>,
              <<DefaultFastPeriod, 0>>}
Periods == {0, DefaultFastPeriod, DefaultSlowPeriod}

RsiValues == {15, 25, 30, 50, 70, 75, 85}
MaValues == {10, 11, 12}

ShortHistory == Hist(FALSE, 1)
LongHistory == Hist(FALSE, 60)
NoHistory == Hist(TRUE, 0)

Failure == Resp(TRUE, <<>>)
SlowFlat == Resp(FALSE, <<11, 11, 11>>)
Sma(fast, slow) ==
    [p \in Periods |-> IF p = DefaultFastPeriod THEN fast
                       ELSE IF p = DefaultSlowPeriod THEN slow ELSE Failure]
Scenario(hist, rsi, sma) == [hist |-> hist, rsi |-> rsi, sma |-> sma]

DefaultRsi == Resp(FALSE, <<50, 50>>)
DefaultSma == Sma(SlowFlat, SlowFlat)

RsiResponses ==
    {Failure, Resp(FALSE, <<>>)} \cup {Resp(FALSE, <<50, v>>) : v \in RsiValues}
FastResponses ==
    {Failure, Resp(FALSE, <<11>>)}
        \cup {Resp(FALSE, <<11, p, c>>) : p \in MaValues, c \in MaValues}

RsiScenarios ==
    {Scenario(NoHistory, DefaultRsi, DefaultSma), Scenario(ShortHistory, DefaultRsi, DefaultSma)}
        \cup {Scenario(LongHistory, r, DefaultSma) : r \in RsiResponses}
MaScenarios ==
    {Scenario(NoHistory, DefaultRsi, DefaultSma), Scenario(ShortHistory, DefaultRsi, DefaultSma)}
        \cup {Scenario(LongHistory, DefaultRsi, Sma(f, SlowFlat)) : f \in FastResponses}
        \cup {Scenario(LongHistory, DefaultRsi, Sma(SlowFlat, x)) :
                x \in {Failure, Resp(FALSE, <<11>>)}}
\* RSI oversold with a golden cross; RSI overbought with no cross
MixedScenarios ==
    {Scenario(LongHistory, Resp(FALSE, <<50, 15>>), Sma(Resp(FALSE, <<11, 10, 12>>), SlowFlat)),
     Scenario(LongHistory, Resp(FALSE, <<50, 85>>), Sma(Resp(FALSE, <<11, 11, 11>>), SlowFlat))}

SignalWorlds == [Symbols -> RsiScenarios] \cup [Symbols -> MaScenarios]
\* the two symbols in different scenarios
CompositeWorlds == {w \in [Symbols -> MixedScenarios] : w["A"] # w["B"]}

\* the sub-models a composite is built from
SubModels ==
    {RSIAlphaModel(DefaultRsiPeriod, DefaultOverbought, DefaultOversold),
     MovingAverageCrossAlphaModel(DefaultFastPeriod, DefaultSlowPeriod),
     CustomAlphaModel("Up", None),
     CustomAlphaModel("Up", FZero),
     CompositeAlphaModel(<<RSIAlphaModel(DefaultRsiPeriod, DefaultOverbought, DefaultOversold),
                           MovingAverageCrossAlphaModel(DefaultFastPeriod, DefaultSlowPeriod)>>)}

(***************************************************************************)
(* The state machine: a model is constructed, then generate_insights runs  *)
(* on it step by step.                                                     *)
(***************************************************************************)
InitLocals ==
    /\ model = NoModel
    /\ symbols = <<>>
    /\ pc = "idle"
    /\ idx = 1
    /\ collected = 0
    /\ insights = <<>>
    /\ all_insights = <<>>
    /\ insights_by_symbol = <<>>
    /\ composite_insights = <<>>
    /\ result = <<>>
    /\ prev = NoCall
    /\ calls = 0

Init == world \in SignalWorlds /\ InitLocals

InitComposite == world \in CompositeWorlds /\ InitLocals

ConstructRSI ==
    /\ pc = "idle"
    /\ \E p \in RsiPeriods, t \in Thresholds : model' = RSIAlphaModel(p, t[1], t[2])
    /\ pc' = "constructed"
    /\ UNCHANGED <<world, symbols, idx, collected, insights, all_insights,
                   insights_by_symbol, composite_insights, result, prev, calls>>

ConstructMA ==
    /\ pc = "idle"
    /\ \E t \in MaPeriods : model' = MovingAverageCrossAlphaModel(t[1], t[2])
    /\ pc' = "constructed"
    /\ UNCHANGED <<world, symbols, idx, collected, insights, all_insights,
                   insights_by_symbol, composite_insights, result, prev, calls>>

ConstructComposite ==
    /\ pc = "idle"
    /\ \E models \in SeqsUpTo(SubModels, MaxSubModels) : model' = CompositeAlphaModel(models)
    /\ pc' = "constructed"
    /\ UNCHANGED <<world, symbols, idx, collected, insights, all_insights,
                   insights_by_symbol, composite_insights, result, prev, calls>>

\* entry of generate_insights(symbols): the locals are fresh
Enter(syms) ==
    /\ symbols' = syms
    /\ idx' = 1
    /\ collected' = 0
    /\ insights' = <<>>
    /\ all_insights' = <<>>
    /\ insights_by_symbol' = <<>>
    /\ composite_insights' = <<>>
    /\ result' = <<>>
    /\ calls' = calls + 1
    /\ pc' = IF model'.kind = "Composite" THEN "collect" ELSE "symbol_loop"

Call ==
    /\ pc = "constructed"
    /\ calls < MaxCalls
    /\ UNCHANGED <<world, model, prev>>
    /\ \E syms \in SymbolLists : Enter(syms)

RSIStep ==
    /\ pc = "symbol_loop" /\ model.kind = "RSI"
    /\ idx <= Len(symbols)
    /\ LET st == SymbolStep(world, model, symbols[idx], insights)
       IN  /\ insights' = st.insights
           /\ pc' = IF st.raised THEN "raised" ELSE pc
    /\ idx' = idx + 1
    /\ UNCHANGED <<world, model, symbols, collected, all_insights, insights_by_symbol,
                   composite_insights, result, prev, calls>>

MAStep ==
    /\ pc = "symbol_loop" /\ model.kind = "MA"
    /\ idx <= Len(symbols)
    /\ LET st == SymbolStep(world, model, symbols[idx], insights)
       IN  /\ insights' = st.insights
           /\ pc' = IF st.raised THEN "raised" ELSE pc
    /\ idx' = idx + 1
    /\ UNCHANGED <<world, model, symbols, collected, all_insights, insights_by_symbol,
                   composite_insights, result, prev, calls>>

\* `return insights`
ReturnInsights ==
    /\ pc = "symbol_loop"
    /\ idx > Len(symbols)
    /\ result' = insights
    /\ pc' = "done"
    /\ UNCHANGED <<world, model, symbols, idx, collected, insights, all_insights,
                   insights_by_symbol, composite_insights, prev, calls>>

\* one iteration of `for model in self.models`
CollectStep ==
    /\ pc = "collect"
    /\ ~CollectDone(collected, Len(model.models))
    /\ LET r == GenerateInsights(world, model.models[collected + 1], symbols)
       IN  /\ all_insights' = IF r.raised THEN all_insights ELSE all_insights \o r.insights
           /\ pc' = IF r.raised THEN "raised" ELSE pc
    /\ collected' = collected + 1
    /\ UNCHANGED <<world, model, symbols, idx, insights, insights_by_symbol,
                   composite_insights, result, prev, calls>>

\* `for insight in all_insights:` grouping into insights_by_symbol
GroupStep ==
    /\ pc = "collect"
    /\ CollectDone(collected, Len(model.models))
    /\ insights_by_symbol' = GroupBySymbol(all_insights)
    /\ idx' = 1
    /\ pc' = "aggregate"
    /\ UNCHANGED <<world, model, symbols, collected, insights, all_insights,
                   composite_insights, result, prev, calls>>

\* one iteration of `for symbol, symbol_insights in insights_by_symbol.items()`
AggregateStep ==
    /\ pc = "aggregate"
    /\ idx <= Len(insights_by_symbol)
    /\ composite_insights' = composite_insights \o Consensus(model, insights_by_symbol[idx])
    /\ idx' = idx + 1
    /\ UNCHANGED <<world, model, symbols, pc, collected, insights, all_insights,
                   insights_by_symbol, result, prev, calls>>

\* `return composite_insights`
ReturnComposite ==
    /\ pc = "aggregate"
    /\ idx > Len(insights_by_symbol)
    /\ result' = composite_insights
    /\ pc' = "done"
    /\ UNCHANGED <<world, model, symbols, idx, collected, insights, all_insights,
                   insights_by_symbol, composite_insights, prev, calls>>

IsPermutation(f, n) == \A j \in 1..n : \E k \in 1..n : f[k] = j
Permuted(s, f) == [j \in 1..Len(s) |-> s[f[j]]]
Orderings(s) ==
    {Permuted(s, f) : f \in {g \in [1..Len(s) -> 1..Len(s)] : IsPermutation(g, Len(s))}}

\* The caller builds a composite over the same sub-models in another order
\* and calls it with the same symbols in another order.
CallPermuted ==
    /\ pc = "done" /\ model.kind = "Composite"
    /\ calls < MaxCalls
    /\ prev' = [kind |-> "call", models |-> model.models, symbols |-> symbols,
                result |-> result]
    /\ \E models \in Orderings(model.models) : model' = CompositeAlphaModel(models)
    /\ \E syms \in Orderings(symbols) : Enter(syms)
    /\ UNCHANGED world

Next ==
    \/ ConstructRSI
    \/ ConstructMA
    \/ Call
    \/ RSIStep
    \/ MAStep
    \/ ReturnInsights

NextComposite ==
    \/ ConstructComposite
    \/ Call
    \/ CollectStep
    \/ GroupStep
    \/ AggregateStep
    \/ ReturnComposite

NextRepeat ==
    \/ NextComposite
    \/ CallPermuted

\* RSI and MA models called directly
Spec == Init /\ [][Next]_vars

\* a composite over RSI, MA, custom and nested composite sub-models
SpecComposite == InitComposite /\ [][NextComposite]_vars

\* the same, called again with its sub-models and symbols permuted
SpecRepeat == InitComposite /\ [][NextRepeat]_vars

(***************************************************************************)
(* Properties.                                                             *)
(***************************************************************************)
Done(kind) == pc = "done" /\ model.kind = kind

ForSymbol(seq, s) == SelectSeq(seq, LAMBDA x : x.symbol = s)
CountFor(seq, s) == Len(ForSymbol(seq, s))
CountDir(seq, s, d) == Len(SelectSeq(seq, LAMBDA x : x.symbol = s /\ x.direction = d))
Emits(seq, s, d) == \E j \in 1..Len(seq) : seq[j].symbol = s /\ seq[j].direction = d
EmitsWith(seq, s, d, c) ==
    \E j \in 1..Len(seq) : seq[j].symbol = s /\ seq[j].direction = d /\ seq[j].confidence = c

\* C1: for every symbol whose group reached quorum, a composite Up insight is
\* returned exactly when Up insights strictly outnumber Down insights, a
\* composite Down exactly when Down outnumbers Up, and nothing on a tie.
C1_MajorityDecides ==
    Done("Composite") =>
        \A s \in Symbols :
            LET ups   == CountDir(all_insights, s, "Up")
                downs == CountDir(all_insights, s, "Down")
            IN  CountFor(all_insights, s) >= 2 =>
                    /\ Emits(result, s, "Up") <=> ups > downs
                    /\ Emits(result, s, "Down") <=> downs > ups
                    /\ ups = downs => CountFor(result, s) = 0

\* a finished composite call where one symbol had a tied group of two or more
\* and another a majority for Up
C1_Witness ==
    /\ Done("Composite")
    /\ \E s \in Symbols :
          /\ CountFor(all_insights, s) >= 2
          /\ CountDir(all_insights, s, "Up") = CountDir(all_insights, s, "Down")
          /\ CountFor(result, s) = 0
    /\ \E s \in Symbols :
          /\ CountFor(all_insights, s) >= 2
          /\ CountDir(all_insights, s, "Up") > CountDir(all_insights, s, "Down")
          /\ Emits(result, s, "Up")

\* C2: no composite insight is returned for a symbol for which the sub-models
\* together produced fewer than two insights.
C2_QuorumOfTwo ==
    Done("Composite") =>
        \A s \in Symbols : CountFor(all_insights, s) < 2 => CountFor(result, s) = 0

\* a finished composite call where a symbol had exactly one sub-model insight
C2_Witness ==
    /\ Done("Composite")
    /\ \E s \in Symbols : CountFor(all_insights, s) = 1 /\ CountFor(result, s) = 0
    /\ result # <<>>

\* the mean the claim describes: only a missing confidence becomes 0.5
RECURSIVE SumMissingOnly(_, _, _)
SumMissingOnly(subset, j, acc) ==
    IF j > Len(subset) THEN acc
    ELSE SumMissingOnly(subset, j + 1,
            FAdd(acc, IF subset[j].confidence = None THEN Lit05 ELSE subset[j].confidence))
MeanMissingOnly(subset) == FDivInt(SumMissingOnly(subset, 1, FZero), Len(subset))

\* C3: every composite insight carries the mean of the confidences of the
\* winning-direction insights of its symbol, 0.5 standing in only for a missing
\* confidence (a supplied 0.0 enters unchanged), magnitude 1.0 and
\* source_model "Composite_Alpha_Model".
C3_MeanOfWinners ==
    Done("Composite") =>
        \A j \in 1..Len(result) :
            LET winners == SelectSeq(all_insights,
                               LAMBDA x : x.symbol = result[j].symbol
                                          /\ x.direction = result[j].direction)
            IN  /\ result[j].confidence = MeanMissingOnly(winners)
                /\ result[j].magnitude = Lit10
                /\ result[j].source_model = "Composite_Alpha_Model"

RsiSufficient(s) ==
    /\ ~world[s].hist.raises
    /\ (IF world[s].hist.len < HistoryDays THEN world[s].hist.len ELSE HistoryDays)
          >= model.rsi_period + 1
    /\ ~world[s].rsi.raises
    /\ world[s].rsi.values # <<>>

\* C4: for a symbol with sufficient data whose latest indicator value is v, the
\* RSI model emits Down with confidence min(0.9, (v - overbought)/10) if
\* v > overbought, Up with confidence min(0.9, (oversold - v)/10) if
\* v < oversold, nothing if oversold <= v <= overbought; every confidence
\* emitted is positive and at most 0.9.
C4_ThresholdRule ==
    Done("RSI") =>
        /\ \A j \in 1..Len(symbols) :
              LET s == symbols[j]
                  v == Last(world[s].rsi.values)
              IN  RsiSufficient(s) =>
                     /\ v > model.overbought =>
                           EmitsWith(result, s, "Down",
                               FMin(Lit09, FDivInt(FromInt(v - model.overbought), 10)))
                     /\ v < model.oversold =>
                           EmitsWith(result, s, "Up",
                               FMin(Lit09, FDivInt(FromInt(model.oversold - v), 10)))
                     /\ (model.oversold <= v /\ v <= model.overbought) =>
                           CountFor(result, s) = 0
        /\ \A j \in 1..Len(result) :
              FLess(FZero, result[j].confidence) /\ FLeq(result[j].confidence, Lit09)

MaSufficient(s) ==
    LET longest == IF model.fast_period > model.slow_period
                   THEN model.fast_period ELSE model.slow_period
        n       == longest + MaPadding
    IN  /\ ~world[s].hist.raises
        /\ (IF world[s].hist.len < n THEN world[s].hist.len ELSE n) >= model.slow_period + 2
        /\ ~world[s].sma[model.fast_period].raises
        /\ ~world[s].sma[model.slow_period].raises
        /\ Len(world[s].sma[model.fast_period].values) >= 2
        /\ Len(world[s].sma[model.slow_period].values) >= 2

\* C5: for a symbol with sufficient data the MA model emits Up (confidence
\* 0.7) exactly when fast_prev <= slow_prev and fast_cur > slow_cur, Down
\* (confidence 0.7) exactly when fast_prev >= slow_prev and fast_cur < slow_cur,
\* nothing otherwise, and never both.
C5_CrossRule ==
    Done("MA") =>
        \A j \in 1..Len(symbols) :
            LET s  == symbols[j]
                f  == world[s].sma[model.fast_period].values
                sl == world[s].sma[model.slow_period].values
                golden == f[Len(f) - 1] <= sl[Len(sl) - 1] /\ f[Len(f)] > sl[Len(sl)]
                death  == f[Len(f) - 1] >= sl[Len(sl) - 1] /\ f[Len(f)] < sl[Len(sl)]
            IN  MaSufficient(s) =>
                   /\ Emits(result, s, "Up") <=> golden
                   /\ Emits(result, s, "Down") <=> death
                   /\ ~(Emits(result, s, "Up") /\ Emits(result, s, "Down"))
                   /\ \A k \in 1..Len(result) :
                         result[k].symbol = s => result[k].confidence = Lit07

\* a finished MA call that emitted Up for a symbol whose previous points were equal
C5_Witness ==
    /\ Done("MA")
    /\ \E j \in 1..Len(symbols) :
          LET s  == symbols[j]
              f  == world[s].sma[model.fast_period].values
              sl == world[s].sma[model.slow_period].values
          IN  /\ MaSufficient(s)
              /\ f[Len(f) - 1] = sl[Len(sl) - 1]
              /\ f[Len(f)] > sl[Len(sl)]
              /\ EmitsWith(result, s, "Up", Lit07)

\* the responses with those for symbol f replaced by ones that do not fail
Healed(w, f) ==
    [w EXCEPT ![f] = Scenario(LongHistory, Resp(FALSE, <<50, 85>>),
                              Sma(Resp(FALSE, <<11, 10, 12>>), SlowFlat))]
Others(seq, f) == SelectSeq(seq, LAMBDA x : x.symbol # f)

\* C6: in the RSI and MA models a collaborator error for one symbol never
\* leaves generate_insights, that symbol yields no insight, and every other
\* symbol yields what it yields when the failure does not occur.
C6_FailureIsolated ==
    /\ pc # "raised"
    /\ (Done("RSI") \/ Done("MA")) =>
          \A f \in Symbols :
              TryBody(world, model, f).raised =>
                 /\ CountFor(result, f) = 0
                 /\ Others(result, f)
                       = Others(GenerateInsights(Healed(world, f), model, symbols).insights, f)

\* a finished call whose first symbol failed and whose second symbol got its insight
C6_Witness ==
    /\ (Done("RSI") \/ Done("MA"))
    /\ Len(symbols) >= 2
    /\ TryBody(world, model, symbols[1]).raised
    /\ symbols[2] # symbols[1]
    /\ CountFor(result, symbols[2]) = 1

\* C7: the sequence a model returns holds at most one insight per symbol.
C7_OnePerSymbol ==
    pc = "done" => \A s \in Symbols : CountFor(result, s) <= 1

Content(seq) ==
    {<<seq[j].symbol, seq[j].direction, seq[j].confidence>> : j \in 1..Len(seq)}

\* C8: a composite over the same sub-models in another order, called with the
\* same symbols in another order, returns the same set of
\* (symbol, direction, confidence).
C8_OrderIndependent ==
    (Done("Composite") /\ prev.kind = "call") => Content(result) = Content(prev.result)

RECURSIVE Flatten(_, _, _, _)
Flatten(w, models, syms, k) ==
    IF k > Len(models) THEN <<>>
    ELSE GenerateInsights(w, models[k], syms).insights \o Flatten(w, models, syms, k + 1)

\* C9: grouping and aggregation start only when generate_insights of every
\* sub-model has returned; they work on the insights of all of them.
C9_FullBarrier ==
    (model.kind = "Composite" /\ pc \in {"aggregate", "done"}) =>
        /\ collected = Len(model.models)
        /\ all_insights = Flatten(world, model.models, symbols, 1)
        /\ insights_by_symbol = GroupBySymbol(all_insights)

\* aggregation under way over three sub-models, a composite insight already decided
C9_Witness ==
    /\ model.kind = "Composite" /\ pc = "aggregate"
    /\ Len(model.models) = 3 /\ collected = 3
    /\ composite_insights # <<>>

\* C10: no model instance with an invalid configuration exists.
C10_ValidConfiguration ==
    /\ model.kind = "RSI" => model.oversold < model.overbought /\ model.rsi_period > 0
    /\ model.kind = "MA" => model.fast_period > 0 /\ model.slow_period > 0
====
